---- MODULE Spec2Model ----
(***************************************************************************)
(* FRITZ!Box Log Saver (src/src/main.py): one run of main() logs in with   *)
(* the challenge-response protocol, fetches the event log from data.lua    *)
(* and appends the entries newer than the last persisted timestamp to a    *)
(* JSON Lines file.  The file is the only state that survives a run.       *)
(*                                                                         *)
(* Strings the code only compares or copies are kept as strings; texts the *)
(* code searches (messages, exclusion rules) are sequences of characters;  *)
(* a challenge is the sequence of its "$"-separated fields.  A date or a   *)
(* time text is [fmt, val]: fmt says whether the text is empty, matches    *)
(* the strptime format or does not, val is the day / the second it names.  *)
(***************************************************************************)
EXTENDS Integers, Sequences, FiniteSets, TLC

\* ---------------------------------------------------------------- bounds
MaxDay == 3        \* dates the device stamps entries with: day 0..MaxDay
MaxLog == 2        \* entries in one device log collection
MaxFile == 2       \* a run starts only while the file holds fewer lines
MaxBlock == 2      \* largest BlockTime the device reports
MaxWords == 3      \* words and phrases in a message given to the classifier
MaxRules == 2      \* rules in an exclusion list

\* ------------------------------------------------------ program constants
NoTimestamp == 1
SentinelSID == "0000000000000000"

\* the times of day the device stamps entries with, and the length of a day
TimesOfDay == {0}
SecondsPerDay == Cardinality(TimesOfDay)

\* ------------------------------------------------------------- helpers
Range(s) == {s[i] : i \in DOMAIN s}

\* Python's `sub in text` for strings
Contains(sub, text) ==
  \E k \in 0..(Len(text) - Len(sub)) :
    \A j \in 1..Len(sub) : text[k + j] = sub[j]

IsPrefix(s, t) == Len(s) <= Len(t) /\ \A i \in 1..Len(s) : s[i] = t[i]

Ok(v) == [ok |-> TRUE, val |-> v, exc |-> "none"]
Raise(e) == [ok |-> FALSE, val |-> <<>>, exc |-> e]

\* ------------------------------------------------------------ Hasher
\* texts int() accepts and texts bytes.fromhex() accepts, among the fields used
IntTexts == {"2", "10"}
HexTexts == {"10", "a1"}

\* hashlib: the hexadecimal text of a digest has two digits for each byte
HexDigits(alg) == IF alg = "sha256" THEN 64 ELSE 32

is_pbkdf2FirstCharacter(challenge) == Len(challenge) >= 1 /\ challenge[1] = "2"

\* LoginState.is_pbkdf2: challenge.startswith("2$")
is_pbkdf2(challenge) == Len(challenge) >= 2 /\ challenge[1] = "2"

\* calculate_pbkdf2_response: the fields are read in the order 1, 2, 3, 4 of
\* challenge.split("$"); a missing field is an IndexError, an unparsable one
\* a ValueError.  The digest is kept as the tuple of what it is derived from.
calculate_pbkdf2_response(challenge, password) ==
  LET Field(i) == challenge[i + 1]
      Missing(i) == Len(challenge) < i + 1
  IN  IF Missing(1) THEN Raise("IndexError")
      ELSE IF Field(1) \notin IntTexts THEN Raise("ValueError")
      ELSE IF Missing(2) THEN Raise("IndexError")
      ELSE IF Field(2) \notin HexTexts THEN Raise("ValueError")
      ELSE IF Missing(3) THEN Raise("IndexError")
      ELSE IF Field(3) \notin IntTexts THEN Raise("ValueError")
      ELSE IF Missing(4) THEN Raise("IndexError")
      ELSE IF Field(4) \notin HexTexts THEN Raise("ValueError")
      ELSE Ok([scheme |-> "pbkdf2", head |-> <<Field(4)>>,
               digest |-> <<password, Field(2), Field(1), Field(4), Field(3)>>,
               hexlen |-> HexDigits("sha256")])

\* calculate_md5_response: challenge + "-" + md5(utf_16_le(challenge-password))
calculate_md5_response(challenge, password) ==
  Ok([scheme |-> "md5", head |-> challenge, digest |-> <<challenge, password>>,
      hexlen |-> HexDigits("md5")])

\* get_sid, lines 102-108: the scheme is chosen by the challenge's prefix
challenge_response(challenge, password) ==
  IF is_pbkdf2(challenge)
  THEN calculate_pbkdf2_response(challenge, password)
  ELSE calculate_md5_response(challenge, password)

\* ---------------------------------------------------------- AuthClient
\* get_login_state: the GET of login_sid.lua and the parse of its answer.
\* http = [transport, xml, challenge, blocktime]; challenge <<>> stands for a
\* missing Challenge element (or one without text).
get_login_state(http) ==
  IF http.transport = "URLError" THEN Raise("FritzBoxConnectionError")
  ELSE IF http.transport # "ok" THEN Raise(http.transport)
  ELSE IF http.xml # "ok" THEN Raise("FritzBoxConnectionError")
  ELSE IF http.challenge = <<>> THEN Raise("FritzBoxConnectionError")
  ELSE IF http.blocktime.fmt = "none" THEN Raise("FritzBoxConnectionError")
  ELSE IF http.blocktime.fmt # "int" THEN Raise("FritzBoxConnectionError")
  ELSE Ok([challenge |-> http.challenge, blocktime |-> http.blocktime.val])

\* send_response: the POST of the response and the parse of the SID element.
\* http = [transport, xml, sid]; sid "" stands for a missing SID element.
send_response(http) ==
  IF http.transport = "URLError" THEN Raise("FritzBoxConnectionError")
  ELSE IF http.transport # "ok" THEN Raise(http.transport)
  ELSE IF http.xml # "ok" THEN Raise("FritzBoxConnectionError")
  ELSE IF http.sid = "" THEN Raise("AuthenticationError")
  ELSE Ok(http.sid)

\* a get_sid without the two `except Exception` clauses
PassLoginError(exc) == exc

\* get_sid, lines 97-100 and 114-117: `except Exception` turns whatever the
\* round trip raised into a FritzBoxConnectionError
WrapLoginError(exc) == "FritzBoxConnectionError"

\* a get_sid that does not pause
WaitStepsNone(blocktime) == <<>>

\* get_sid, lines 110-112: the pause before the response is sent
WaitSteps(blocktime) ==
  IF blocktime > 0 THEN <<[op |-> "sleep", arg |-> blocktime]>> ELSE <<>>

\* a get_sid that returns whatever SID it received
CheckSidAcceptsAll(sid) == Ok(sid)

\* get_sid, lines 119-122: the sentinel SID is an authentication failure
CheckSid(sid) ==
  IF sid = SentinelSID THEN Raise("AuthenticationError") ELSE Ok(sid)

\* --------------------------------------------------------- LogFetcher
\* unix_timestamp_from_strings: strptime("%d.%m.%y %H:%M:%S") of the two
\* texts, then the epoch second of that local time
unix_timestamp_from_strings(date, time) ==
  IF date.fmt = "ok" /\ time.fmt = "ok"
  THEN Ok(date.val * SecondsPerDay + time.val)
  ELSE Raise("ValueError")

\* a list rule that matches as soon as one part occurs
RuleMatchesAnyPart(rule, message) ==
  \/ rule.kind = "str" /\ Contains(rule.parts[1], message)
  \/ rule.kind = "list" /\ \E i \in DOMAIN rule.parts : Contains(rule.parts[i], message)

\* is_excluded: a str rule matches as a substring, a list rule when every
\* part occurs; a rule of any other type matches nothing
RuleMatches(rule, message) ==
  \/ rule.kind = "str" /\ Contains(rule.parts[1], message)
  \/ rule.kind = "list" /\ \A i \in DOMAIN rule.parts : Contains(rule.parts[i], message)

is_excluded(message, excludes) ==
  \E i \in DOMAIN excludes : RuleMatches(excludes[i], message)

\* a loop over the collection in the order the device sent it
NotReversed(s) == s

\* list(logData)[::-1]
Reversed(s) == [i \in 1..Len(s) |-> s[Len(s) + 1 - i]]

\* a loop that lets an item without a message through
CompleteButForTheMessage(entry) ==
  /\ entry.isdict
  /\ entry.date.fmt # "empty"
  /\ entry.time.fmt # "empty"

\* an item of the collection passes lines 395-408: a dict with non-empty
\* date, time and msg
Complete(entry) ==
  /\ entry.isdict
  /\ entry.date.fmt # "empty"
  /\ entry.time.fmt # "empty"
  /\ entry.msg # <<>>

RECURSIVE NormalizeFrom(_, _, _)
\* the loop of lines 393-418 over the reversed collection, from item i on
NormalizeFrom(items, excludes, i) ==
  IF i > Len(items) THEN Ok(<<>>)
  ELSE LET entry == items[i]
           rest == NormalizeFrom(items, excludes, i + 1)
       IN  IF ~Complete(entry) \/ is_excluded(entry.msg, excludes) THEN rest
           ELSE LET ts == unix_timestamp_from_strings(entry.date, entry.time)
                IN  IF ~ts.ok THEN Raise(ts.exc)
                    ELSE IF ~rest.ok THEN rest
                    ELSE Ok(<<[timestamp |-> ts.val, date |-> entry.date,
                               time |-> entry.time, message |-> entry.msg]>>
                            \o rest.val)

\* get_fritzbox_event_log from the answer of the POST on.
\* resp = [transport, status, body, log]: body names the shape of the text,
\* log is the collection when body = "log_list".
get_fritzbox_event_log(resp, excludes) ==
  IF resp.transport # "ok" THEN Raise("FritzBoxConnectionError")
  ELSE IF resp.status # 200 THEN Ok(<<>>)
  ELSE IF resp.body = "html" THEN Ok(<<>>)
  ELSE IF resp.body = "notjson" THEN Ok(<<>>)
  ELSE IF resp.body = "nonobject" THEN Raise("AttributeError")
  ELSE IF resp.body = "nodata" THEN Ok(<<>>)
  ELSE IF resp.body = "data_nonobject" THEN Raise("AttributeError")
  ELSE IF resp.body = "nolog" THEN Ok(<<>>)
  ELSE IF resp.body = "log_falsy" THEN Ok(<<>>)
  ELSE IF resp.body = "log_number" THEN Raise("TypeError")
  ELSE IF resp.body = "log_text" THEN Ok(<<>>)
  ELSE IF resp.log = <<>> THEN Ok(<<>>)
  ELSE NormalizeFrom(Reversed(resp.log), excludes, 1)

\* ------------------------------------------------------------ LogStore
\* get_last_timestamp: only the final line is read.  A final line that is
\* JSON but no object has no .get (AttributeError), int(None) is a
\* TypeError; neither is among the exceptions the function catches.
get_last_timestamp(exists, lines) ==
  IF ~exists THEN Ok(NoTimestamp)
  ELSE IF lines = <<>> THEN Ok(NoTimestamp)
  ELSE LET last == lines[Len(lines)]
       IN  CASE last.kind = "blank" -> Ok(NoTimestamp)
             [] last.kind = "notjson" -> Ok(NoTimestamp)
             [] last.kind = "nonrecord" -> Raise("AttributeError")
             [] last.kind = "notimestamp" -> Ok(NoTimestamp)
             [] last.kind = "texttimestamp" -> Ok(NoTimestamp)
             [] last.kind = "nulltimestamp" -> Raise("TypeError")
             [] OTHER -> Ok(last.timestamp)

\* a filter that lets the last recorded second through again
IsNewOrSame(entry, last_timestamp) == entry.timestamp >= last_timestamp

\* create_or_append_to_log, line 300: the entries that pass the filter
IsNew(entry, last_timestamp) == entry.timestamp > last_timestamp

RECURSIVE NewEntriesFrom(_, _, _)
\* the loop of lines 299-300 from entry i on
NewEntriesFrom(data, last_timestamp, i) ==
  IF i > Len(data) THEN <<>>
  ELSE (IF IsNew(data[i], last_timestamp) THEN <<data[i]>> ELSE <<>>)
       \o NewEntriesFrom(data, last_timestamp, i + 1)

NewEntries(data, last_timestamp) == NewEntriesFrom(data, last_timestamp, 1)

\* the line written for an entry (lines 304-318)
LogLine(entry) ==
  [kind |-> "record", timestamp |-> entry.timestamp, message |-> entry.message]

\* a store that opens the file with mode='w'
WriteLinesTruncating(lines, entries) ==
  [i \in 1..Len(entries) |-> LogLine(entries[i])]

\* open(file_path, mode='a') and the writes: the lines after the call
WriteLines(lines, entries) ==
  lines \o [i \in 1..Len(entries) |-> LogLine(entries[i])]

\* create_or_append_to_log: the file after the call, or the exception it
\* ends with (then the file was not opened)
create_or_append_to_log(exists, lines, data) ==
  LET last == get_last_timestamp(exists, lines)
  IN  IF ~last.ok THEN Raise(last.exc)
      ELSE Ok(WriteLines(IF exists THEN lines ELSE <<>>,
                         NewEntries(data, last.val)))

\* ---------------------------------------------------------- Classifier
\* a text is the sequence of its characters; an umlaut is one character,
\* written with two letters ("ue" is the u umlaut)
UpperCase ==
  << "A", "B", "C", "D", "E", "F", "G", "H", "I", "J", "K", "L", "M", "N",
     "O", "P", "Q", "R", "S", "T", "U", "V", "W", "X", "Y", "Z", "AE", "OE",
     "UE" >>

LowerCase ==
  << "a", "b", "c", "d", "e", "f", "g", "h", "i", "j", "k", "l", "m", "n",
     "o", "p", "q", "r", "s", "t", "u", "v", "w", "x", "y", "z", "ae", "oe",
     "ue" >>

\* a classifier that compares the message as it is written
KeepCase(message) == message

\* str.lower()
Lower(message) ==
  [i \in DOMAIN message |->
     IF \E k \in DOMAIN UpperCase : UpperCase[k] = message[i]
     THEN LowerCase[CHOOSE k \in DOMAIN UpperCase : UpperCase[k] = message[i]]
     ELSE message[i]]

ERROR_PATTERNS ==
  << <<"f", "e", "h", "l", "e", "r">>,
     <<"e", "r", "r", "o", "r">>,
     <<"g", "e", "s", "c", "h", "e", "i", "t", "e", "r", "t">>,
     <<"f", "e", "h", "l", "g", "e", "s", "c", "h", "l", "a", "g", "e", "n">>,
     <<"f", "a", "i", "l", "e", "d">>,
     <<"f", "a", "i", "l", "u", "r", "e">>,
     <<"n", "i", "c", "h", "t", " ", "v", "e", "r", "f", "ue", "g", "b", "a", "r">>,
     <<"u", "n", "a", "v", "a", "i", "l", "a", "b", "l", "e">>,
     <<"t", "i", "m", "e", "o", "u", "t">>,
     <<"a", "b", "g", "e", "b", "r", "o", "c", "h", "e", "n">>,
     <<"c", "a", "n", "c", "e", "l", "l", "e", "d">>,
     <<"u", "n", "t", "e", "r", "b", "r", "o", "c", "h", "e", "n">>,
     <<"i", "n", "t", "e", "r", "r", "u", "p", "t", "e", "d">>,
     <<"v", "e", "r", "b", "i", "n", "d", "u", "n", "g", " ", "g", "e", "t", "r", "e", "n", "n", "t">>,
     <<"d", "i", "s", "c", "o", "n", "n", "e", "c", "t", "e", "d">>,
     <<"a", "u", "t", "h", "e", "n", "t", "i", "f", "i", "z", "i", "e", "r", "u", "n", "g", "s", "f", "e", "h", "l", "e", "r">>,
     <<"a", "u", "t", "h", "e", "n", "t", "i", "c", "a", "t", "i", "o", "n", " ", "e", "r", "r", "o", "r">>,
     <<"l", "o", "g", "i", "n", " ", "f", "a", "i", "l", "e", "d">>,
     <<"a", "n", "m", "e", "l", "d", "u", "n", "g", " ", "g", "e", "s", "c", "h", "e", "i", "t", "e", "r", "t">>,
     <<"v", "e", "r", "b", "i", "n", "d", "u", "n", "g", "s", "a", "u", "f", "b", "a", "u", " ", "f", "e", "h", "l", "g", "e", "s", "c", "h", "l", "a", "g", "e", "n">>,
     <<"c", "o", "n", "n", "e", "c", "t", "i", "o", "n", " ", "f", "a", "i", "l", "e", "d">>,
     <<"n", "i", "c", "h", "t", " ", "e", "r", "r", "e", "i", "c", "h", "b", "a", "r">>,
     <<"u", "n", "r", "e", "a", "c", "h", "a", "b", "l", "e">> >>

WARNING_PATTERNS ==
  << <<"w", "a", "r", "n", "u", "n", "g">>,
     <<"w", "a", "r", "n", "i", "n", "g">>,
     <<"a", "c", "h", "t", "u", "n", "g">>,
     <<"h", "i", "n", "w", "e", "i", "s">>,
     <<"t", "i", "m", "e", "o", "u", "t">>,
     <<"z", "e", "i", "t", "ue", "b", "e", "r", "s", "c", "h", "r", "e", "i", "t", "u", "n", "g">>,
     <<"l", "a", "n", "g", "s", "a", "m">>,
     <<"s", "l", "o", "w">>,
     <<"s", "c", "h", "w", "a", "c", "h">>,
     <<"w", "e", "a", "k">>,
     <<"i", "n", "s", "t", "a", "b", "i", "l">>,
     <<"u", "n", "s", "t", "a", "b", "l", "e">>,
     <<"ue", "b", "e", "r", "l", "a", "s", "t", "e", "t">>,
     <<"o", "v", "e", "r", "l", "o", "a", "d">>,
     <<"v", "e", "r", "z", "oe", "g", "e", "r", "u", "n", "g">>,
     <<"d", "e", "l", "a", "y">>,
     <<"t", "r", "e", "n", "n", "u", "n", "g">>,
     <<"d", "i", "s", "c", "o", "n", "n", "e", "c", "t">>,
     <<"v", "e", "r", "b", "i", "n", "d", "u", "n", "g", " ", "u", "n", "t", "e", "r", "b", "r", "o", "c", "h", "e", "n">>,
     <<"z", "w", "a", "n", "g", "s", "t", "r", "e", "n", "n", "u", "n", "g">>,
     <<"z", "u", "v", "o", "r", "z", "u", "k", "o", "m", "m", "e", "n">>,
     <<"w", "a", "r", "t", "u", "n", "g">>,
     <<"m", "a", "i", "n", "t", "e", "n", "a", "n", "c", "e">> >>

SUCCESS_PATTERNS ==
  << <<"e", "r", "f", "o", "l", "g", "r", "e", "i", "c", "h">>,
     <<"s", "u", "c", "c", "e", "s", "s", "f", "u", "l">>,
     <<"s", "u", "c", "c", "e", "s", "s", "f", "u", "l", "l", "y">>,
     <<"e", "s", "t", "a", "b", "l", "i", "s", "h", "e", "d">>,
     <<"h", "e", "r", "g", "e", "s", "t", "e", "l", "l", "t">>,
     <<"v", "e", "r", "b", "u", "n", "d", "e", "n">>,
     <<"c", "o", "n", "n", "e", "c", "t", "e", "d">>,
     <<"a", "k", "t", "i", "v", "i", "e", "r", "t">>,
     <<"a", "c", "t", "i", "v", "a", "t", "e", "d">>,
     <<"v", "e", "r", "f", "ue", "g", "b", "a", "r">>,
     <<"a", "v", "a", "i", "l", "a", "b", "l", "e">>,
     <<"e", "r", "h", "a", "l", "t", "e", "n">>,
     <<"r", "e", "c", "e", "i", "v", "e", "d">>,
     <<"a", "k", "t", "u", "a", "l", "i", "s", "i", "e", "r", "t">>,
     <<"u", "p", "d", "a", "t", "e", "d">>,
     <<"i", "n", "s", "t", "a", "l", "l", "i", "e", "r", "t">>,
     <<"i", "n", "s", "t", "a", "l", "l", "e", "d">> >>

\* the words of lines 443-444 and 463-466
Zwangstrennung == <<"z", "w", "a", "n", "g", "s", "t", "r", "e", "n", "n", "u", "n", "g">>
Zuvorzukommen == <<"z", "u", "v", "o", "r", "z", "u", "k", "o", "m", "m", "e", "n">>
KurzUnterbrochen == <<"k", "u", "r", "z", " ", "u", "n", "t", "e", "r", "b", "r", "o", "c", "h", "e", "n">>
ContextWords == << <<"a", "n", "m", "e", "l", "d", "u", "n", "g">>, <<"v", "e", "r", "b", "i", "n", "d", "u", "n", "g">> >>
ContextSuccessWords ==
  << <<"e", "r", "f", "o", "l", "g", "r", "e", "i", "c", "h">>,
     <<"s", "u", "c", "c", "e", "s", "s", "f", "u", "l", "l", "y">> >>
ContextFailureWords ==
  << <<"g", "e", "s", "c", "h", "e", "i", "t", "e", "r", "t">>,
     <<"f", "a", "i", "l", "e", "d">>,
     <<"f", "e", "h", "l", "g", "e", "s", "c", "h", "l", "a", "g", "e", "n">> >>

\* any(pattern in text for pattern in patterns)
AnyIn(patterns, text) == \E i \in DOMAIN patterns : Contains(patterns[i], text)

\* a classifier without the special cases
NeverPlanned(message_lower) == FALSE

\* determine_log_level, lines 443-444: the planned, preventive disconnects
PlannedDisconnect(message_lower) ==
  \/ Contains(Zwangstrennung, message_lower) /\ Contains(Zuvorzukommen, message_lower)
  \/ Contains(KurzUnterbrochen, message_lower) /\ Contains(Zuvorzukommen, message_lower)

\* determine_log_level
determine_log_level(message) ==
  LET message_lower == Lower(message)
  IN  IF PlannedDisconnect(message_lower) THEN "warning"
      ELSE IF AnyIn(ERROR_PATTERNS, message_lower) THEN "error"
      ELSE IF AnyIn(WARNING_PATTERNS, message_lower) THEN "warning"
      ELSE IF AnyIn(SUCCESS_PATTERNS, message_lower) THEN "info"
      ELSE IF AnyIn(ContextWords, message_lower)
              /\ AnyIn(ContextSuccessWords, message_lower) THEN "info"
      ELSE IF AnyIn(ContextWords, message_lower)
              /\ AnyIn(ContextFailureWords, message_lower) THEN "error"
      ELSE "info"

\* ---------------------------------------------------------- Orchestrator
\* main, lines 571-576: the exceptions main reports and exits on; any other
\* exception leaves the interpreter with a traceback
MainCatches(exc) ==
  exc \in {"FritzBoxConnectionError", "AuthenticationError",
           "FileNotFoundError", "YAMLError"}

\* a main that goes on to the log endpoint whatever get_sid did
AfterGetSidAlwaysFetch(exc) == "fetch"

\* main, lines 559-563: the log endpoint is asked only when get_sid returned
AfterGetSid(exc) == IF exc = "none" THEN "fetch" ELSE "exited"

\* how the process ends on an exception (lines 571-573, else a traceback)
ExitOn(exc) ==
  IF exc = "none" THEN "exit0"
  ELSE IF MainCatches(exc) THEN "exit1" ELSE "traceback"

\* ------------------------------------------------- what the world offers
MsgUp == <<"u", "p">>
MsgDown == <<"d", "n">>
Messages == {MsgUp, MsgDown}

StrRule(s) == [kind |-> "str", parts |-> <<s>>]
ListRule(ps) == [kind |-> "list", parts |-> ps]

\* the `exclude` lists a settings file may hold
ExcludeLists ==
  { <<>>, <<ListRule(<< <<"u">>, <<"n">> >>), StrRule(<<"d">>)>> }

\* settings.yaml as main finds it
SettingsFiles ==
  { [file |-> f, username |-> "", password |-> "", exclude |-> <<>>] :
      f \in {"absent", "malformed", "notmapping"} }
  \cup { [file |-> "ok", username |-> u, password |-> w, exclude |-> <<>>] :
           u \in {"", "user"}, w \in {"", "pw"} }
  \cup { [file |-> "ok", username |-> "user", password |-> "pw", exclude |-> x] :
           x \in ExcludeLists }

\* challenges, as their "$"-separated fields
Challenges ==
  { <<"1234567z">>,                     \* legacy
    <<"2", "10", "a1", "10", "a1">>,    \* 2$10$a1$10$a1
    <<"2", "10", "a1">>,                \* too few fields
    <<"2", "zz", "a1", "10", "a1">> }   \* iteration count is no number

BlockTimes ==
  { [fmt |-> "none", val |-> 0], [fmt |-> "text", val |-> 0] }
  \cup { [fmt |-> "int", val |-> b] : b \in 0..MaxBlock }

NoBlockTime == [fmt |-> "none", val |-> 0]

\* answers to the GET of login_sid.lua
LoginAnswers ==
  { [transport |-> t, xml |-> "ok", challenge |-> <<>>, blocktime |-> NoBlockTime] :
      t \in {"URLError", "OSError"} }
  \cup { [transport |-> "ok", xml |-> "malformed", challenge |-> <<>>,
          blocktime |-> NoBlockTime] }
  \cup { [transport |-> "ok", xml |-> "ok", challenge |-> <<>>,
          blocktime |-> [fmt |-> "int", val |-> 0]] }
  \cup { [transport |-> "ok", xml |-> "ok", challenge |-> c, blocktime |-> b] :
           c \in Challenges, b \in BlockTimes }

\* answers to the POST of the response
SidAnswers ==
  { [transport |-> t, xml |-> "ok", sid |-> ""] : t \in {"URLError", "OSError"} }
  \cup { [transport |-> "ok", xml |-> "malformed", sid |-> ""] }
  \cup { [transport |-> "ok", xml |-> "ok", sid |-> x] :
           x \in {"", SentinelSID, "a1b2c3d4e5f60708"} }

Text(f, v) == [fmt |-> f, val |-> v]
EmptyText == Text("empty", 0)
BadText == Text("bad", 0)

\* well-formed entries of the device's log
ValidItems ==
  { [isdict |-> TRUE, date |-> Text("ok", d), time |-> Text("ok", t), msg |-> m] :
      d \in 0..MaxDay, t \in TimesOfDay, m \in Messages }

\* items the loop skips, and items whose date or time does not parse
SkippedItems ==
  { [isdict |-> FALSE, date |-> EmptyText, time |-> EmptyText, msg |-> <<>>],
    [isdict |-> TRUE, date |-> EmptyText, time |-> Text("ok", 0), msg |-> MsgUp],
    [isdict |-> TRUE, date |-> Text("ok", 1), time |-> EmptyText, msg |-> MsgUp],
    [isdict |-> TRUE, date |-> Text("ok", 1), time |-> Text("ok", 0), msg |-> <<>>] }

UnparsableItems ==
  { [isdict |-> TRUE, date |-> BadText, time |-> Text("ok", 0), msg |-> MsgUp],
    [isdict |-> TRUE, date |-> Text("ok", 1), time |-> BadText, msg |-> MsgDown] }

Items == ValidItems \cup SkippedItems \cup UnparsableItems

SeqsUpTo(S, n) == UNION { [1..k -> S] : k \in 0..n }

BodyShapes ==
  {"html", "notjson", "nonobject", "nodata", "data_nonobject", "nolog",
   "log_falsy", "log_number", "log_text"}

\* answers to the POST on data.lua
LogAnswers ==
  { [transport |-> "RequestException", status |-> 200, body |-> "html", log |-> <<>>],
    [transport |-> "ok", status |-> 500, body |-> "html", log |-> <<>>],
    [transport |-> "ok", status |-> 500, body |-> "log_list", log |-> <<>>] }
  \cup { [transport |-> "ok", status |-> 200, body |-> b, log |-> <<>>] : b \in BodyShapes }
  \cup { [transport |-> "ok", status |-> 200, body |-> "log_list", log |-> l] :
           l \in SeqsUpTo(Items, MaxLog) }

\* --------------------------------------------------------------- state
VARIABLES
  fileExists,     \* the log file is there
  file,           \* its lines
  pc,             \* where main() is
  cfg,            \* the settings main read
  loginHttp,      \* the answer to the challenge GET
  login,          \* get_sid's LoginState
  response,       \* get_sid's challenge_response
  sidHttp,        \* the answer to the response POST
  sid,            \* main's sid
  logResp,        \* the answer of data.lua
  logs,           \* main's logs
  exc,            \* the exception in flight, "none" without one
  raisedIn,       \* the function it escaped from
  exit,           \* how the process ended
  events,         \* the requests and file writes of the run, in order
  slept,          \* the seconds get_sid has slept in this run
  fileAtStart,    \* the file when the run started
  existsAtStart,
  newestFirst,    \* every collection so far came newest first
  call,           \* a function of the program applied on its own: its name
                  \* and arguments
  ret             \* what that application gave

vars == <<fileExists, file, pc, cfg, loginHttp, login, response, sidHttp, sid,
          logResp, logs, exc, raisedIn, exit, events, slept, fileAtStart,
          existsAtStart, newestFirst, call, ret>>

NoCfg == [file |-> "none", username |-> "", password |-> "", exclude |-> <<>>]
NoLoginHttp ==
  [transport |-> "none", xml |-> "none", challenge |-> <<>>, blocktime |-> NoBlockTime]
NoLogin == [challenge |-> <<>>, blocktime |-> 0]
NoResponse == [scheme |-> "none", head |-> <<>>, digest |-> <<>>, hexlen |-> 0]
NoSidHttp == [transport |-> "none", xml |-> "none", sid |-> ""]
NoLogResp == [transport |-> "none", status |-> 0, body |-> "none", log |-> <<>>]

fileVars == <<fileExists, file>>
loginVars == <<loginHttp, login, response, sidHttp, slept>>
fetchVars == <<logResp, logs>>
startVars == <<fileAtStart, existsAtStart>>
callVars == <<call, ret>>

NoCall == [fn |-> "none"]
NoRet == [done |-> FALSE]

RunLocalsCleared ==
  /\ cfg = NoCfg /\ loginHttp = NoLoginHttp /\ login = NoLogin
  /\ response = NoResponse /\ sidHttp = NoSidHttp /\ sid = ""
  /\ logResp = NoLogResp /\ logs = <<>> /\ exc = "none" /\ raisedIn = "none"
  /\ exit = "running" /\ events = <<>> /\ slept = <<>>

Init ==
  /\ fileExists = FALSE
  /\ file = <<>>
  /\ pc = "idle"
  /\ RunLocalsCleared
  /\ fileAtStart = <<>>
  /\ existsAtStart = FALSE
  /\ newestFirst = TRUE
  /\ call = NoCall
  /\ ret = NoRet

\* the run ends with exception e escaping function f
Fails(e, f) ==
  /\ exc' = e
  /\ raisedIn' = f
  /\ exit' = ExitOn(e)
  /\ pc' = "exited"

\* main, line 550: a run needs a user name and a password
CredentialsMissingUserOnly(s) == s.username = ""

CredentialsMissing(s) == s.username = "" \/ s.password = ""

\* main, line 564: only a fetch that returned entries reaches the file
HasEntriesAlways(l) == TRUE

HasEntries(l) == l # <<>>

\* main, lines 526-552: settings.yaml is read and checked
StartRun ==
  /\ pc = "idle"
  /\ Len(file) < MaxFile
  /\ fileAtStart' = file
  /\ existsAtStart' = fileExists
  /\ \E s \in SettingsFiles :
       /\ cfg' = s
       /\ IF s.file = "absent"
          THEN exc' = "none" /\ raisedIn' = "main" /\ exit' = "exit1" /\ pc' = "exited"
          ELSE IF s.file = "malformed" THEN Fails("YAMLError", "load_settings")
          ELSE IF s.file = "notmapping" THEN Fails("AttributeError", "main")
          ELSE IF CredentialsMissing(s)
          THEN exc' = "none" /\ raisedIn' = "main" /\ exit' = "exit1" /\ pc' = "exited"
          ELSE pc' = "login" /\ UNCHANGED <<exc, raisedIn, exit>>
  /\ UNCHANGED <<fileVars, loginVars, sid, fetchVars, events, newestFirst, callVars>>

\* get_sid, lines 97-100
GetChallenge ==
  /\ pc = "login"
  /\ \E a \in LoginAnswers :
       LET r == get_login_state(a)
       IN  /\ loginHttp' = a
           /\ events' = Append(events, "GET login_sid.lua")
           /\ IF r.ok
              THEN /\ login' = r.val
                   /\ pc' = "challenge"
                   /\ UNCHANGED <<exc, raisedIn>>
              ELSE /\ login' = login
                   /\ exc' = WrapLoginError(r.exc)
                   /\ raisedIn' = "get_sid"
                   /\ pc' = "got_sid"
  /\ UNCHANGED <<fileVars, cfg, response, sidHttp, slept, sid, fetchVars, exit,
                 startVars, newestFirst, callVars>>

\* get_sid, lines 102-108
ComputeResponse ==
  /\ pc = "challenge"
  /\ LET r == challenge_response(login.challenge, cfg.password)
     IN  IF r.ok
         THEN /\ response' = r.val
              /\ pc' = "wait"
              /\ UNCHANGED <<exc, raisedIn>>
         ELSE /\ response' = response
              /\ exc' = r.exc
              /\ raisedIn' = "get_sid"
              /\ pc' = "got_sid"
  /\ UNCHANGED <<fileVars, cfg, loginHttp, login, sidHttp, slept, sid, fetchVars,
                 exit, events, startVars, newestFirst, callVars>>

\* get_sid, lines 110-112
Wait ==
  /\ pc = "wait"
  /\ LET w == WaitSteps(login.blocktime)
     IN  slept' = slept \o [i \in 1..Len(w) |-> w[i].arg]
  /\ pc' = "send"
  /\ UNCHANGED <<fileVars, cfg, loginHttp, login, response, sidHttp, sid,
                 fetchVars, exc, raisedIn, exit, events, startVars, newestFirst, callVars>>

\* get_sid, lines 114-122: the POST, then the sentinel check; sid' holds what
\* get_sid returns
SendResponse ==
  /\ pc = "send"
  /\ \E a \in SidAnswers :
       LET r == send_response(a)
           c == IF r.ok THEN CheckSid(r.val) ELSE Raise(WrapLoginError(r.exc))
       IN  /\ sidHttp' = a
           /\ events' = Append(events, "POST login_sid.lua")
           /\ IF c.ok
              THEN sid' = c.val /\ UNCHANGED <<exc, raisedIn>>
              ELSE sid' = sid /\ exc' = c.exc /\ raisedIn' = "get_sid"
  /\ pc' = "got_sid"
  /\ UNCHANGED <<fileVars, cfg, loginHttp, login, response, slept, fetchVars,
                 exit, startVars, newestFirst, callVars>>

\* main, lines 559-561 and 571-573: get_sid is over, its locals are gone
Authenticated ==
  /\ pc = "got_sid"
  /\ pc' = AfterGetSid(exc)
  /\ exit' = IF exc = "none" THEN exit ELSE ExitOn(exc)
  /\ loginHttp' = NoLoginHttp
  /\ login' = NoLogin
  /\ response' = NoResponse
  /\ slept' = <<>>
  /\ UNCHANGED <<fileVars, cfg, sidHttp, sid, fetchVars, exc, raisedIn, events,
                 startVars, newestFirst, callVars>>

\* the device lists its log newest first: over the items that carry a date
\* and a time, the timestamps never rise from one item to a later one
Stamped(item) == Complete(item) /\ unix_timestamp_from_strings(item.date, item.time).ok

ItemTimestamp(item) == unix_timestamp_from_strings(item.date, item.time).val

NewestFirst(log) ==
  \A i, j \in DOMAIN log :
    (i < j /\ Stamped(log[i]) /\ Stamped(log[j]))
      => ItemTimestamp(log[i]) >= ItemTimestamp(log[j])

\* main, line 563: get_fritzbox_event_log
FetchLog ==
  /\ pc = "fetch"
  /\ \E a \in LogAnswers :
       LET r == get_fritzbox_event_log(a, cfg.exclude)
       IN  /\ logResp' = a
           /\ newestFirst' = (newestFirst /\ NewestFirst(a.log))
           /\ IF r.ok
              THEN logs' = r.val /\ UNCHANGED <<exc, raisedIn>>
              ELSE logs' = logs /\ exc' = r.exc /\ raisedIn' = "get_fritzbox_event_log"
  /\ events' = Append(events, "POST data.lua")
  /\ pc' = "got_logs"
  /\ UNCHANGED <<fileVars, cfg, loginVars, sid, exit, startVars, callVars>>

\* main, lines 564-573: the entries go to the file, or there are none, or
\* the fetch raised
StoreLogs ==
  /\ pc = "got_logs"
  /\ logResp' = NoLogResp
  /\ cfg' = NoCfg
  /\ IF exc # "none"
     THEN /\ exit' = ExitOn(exc)
          /\ pc' = "exited"
          /\ UNCHANGED <<fileVars, exc, raisedIn, events>>
     ELSE IF HasEntries(logs)
     THEN LET r == create_or_append_to_log(fileExists, file, logs)
          IN  IF r.ok
              THEN /\ file' = r.val
                   /\ fileExists' = TRUE
                   /\ events' = Append(events, "append")
                   /\ exit' = "exit0"
                   /\ pc' = "exited"
                   /\ UNCHANGED <<exc, raisedIn>>
              ELSE /\ Fails(r.exc, "create_or_append_to_log")
                   /\ UNCHANGED <<fileVars, events>>
     ELSE /\ exit' = "exit0"
          /\ pc' = "exited"
          /\ UNCHANGED <<fileVars, exc, raisedIn, events>>
  /\ UNCHANGED <<loginVars, sid, logs, startVars, newestFirst, callVars>>

\* the process is gone; the file stays
Finish ==
  /\ pc = "exited"
  /\ pc' = "idle"
  /\ cfg' = NoCfg /\ loginHttp' = NoLoginHttp /\ login' = NoLogin
  /\ response' = NoResponse /\ sidHttp' = NoSidHttp /\ sid' = ""
  /\ logResp' = NoLogResp /\ logs' = <<>> /\ exc' = "none" /\ raisedIn' = "none"
  /\ exit' = "running" /\ events' = <<>> /\ slept' = <<>>
  /\ UNCHANGED <<fileVars, startVars, newestFirst, callVars>>

Next ==
  \/ StartRun
  \/ GetChallenge
  \/ ComputeResponse
  \/ Wait
  \/ SendResponse
  \/ Authenticated
  \/ FetchLog
  \/ StoreLogs
  \/ Finish

Spec == Init /\ [][Next]_vars

\* ------------------------------------------- the store on any file content
\* lines a file may end with: a record with a timestamp, and the final lines
\* get_last_timestamp tells apart
RecordLine(ts) == [kind |-> "record", timestamp |-> ts, message |-> MsgUp]

OtherLine(k) == [kind |-> k, timestamp |-> 0, message |-> <<>>]

OtherLineKinds ==
  {"blank", "notjson", "nonrecord", "notimestamp", "texttimestamp", "nulltimestamp"}

FinalLines ==
  { RecordLine(ts) : ts \in 0..MaxDay } \cup { OtherLine(k) : k \in OtherLineKinds }

StoreFiles ==
  { <<>> } \cup { <<l>> : l \in FinalLines }
  \cup { <<RecordLine(NoTimestamp + 1), l>> : l \in FinalLines }

NormalizedEntries ==
  { [timestamp |-> unix_timestamp_from_strings(v.date, v.time).val,
     date |-> v.date, time |-> v.time, message |-> v.msg] : v \in ValidItems }

\* main has fetched a non-empty list and is about to store it
InitStore ==
  /\ fileExists \in BOOLEAN
  /\ file \in StoreFiles
  /\ (~fileExists => file = <<>>)
  /\ fileAtStart = file
  /\ existsAtStart = fileExists
  /\ pc = "got_logs"
  /\ logs \in SeqsUpTo(NormalizedEntries, MaxLog) \ { <<>> }
  /\ cfg = NoCfg /\ loginHttp = NoLoginHttp /\ login = NoLogin
  /\ response = NoResponse /\ slept = <<>>
  /\ sidHttp = [transport |-> "ok", xml |-> "ok", sid |-> "a1b2c3d4e5f60708"]
  /\ sid = "a1b2c3d4e5f60708"
  /\ logResp = NoLogResp
  /\ exc = "none" /\ raisedIn = "none" /\ exit = "running"
  /\ events = <<"GET login_sid.lua", "POST login_sid.lua", "POST data.lua">>
  /\ newestFirst = TRUE
  /\ call = NoCall
  /\ ret = NoRet

NextStore ==
  \/ StoreLogs
  \/ Finish

SpecStore == InitStore /\ [][NextStore]_vars

\* ================================================================ claims
LineStamps(lines) == [i \in 1..Len(lines) |-> lines[i].timestamp]

NonDecreasing(ts) == \A i, j \in DOMAIN ts : i < j => ts[i] <= ts[j]

Requested(what) == what \in Range(events)

\* the timestamp a reader finds on the final line of the file, 1 when the
\* file is missing or empty or its final line carries none
LastRecorded(exists, lines) ==
  IF exists /\ lines # <<>> /\ lines[Len(lines)].kind = "record"
  THEN lines[Len(lines)].timestamp
  ELSE NoTimestamp

RECURSIVE StrictlyNewer(_, _)
\* the lines of the entries of data that are strictly newer than last,
\* in the order of data
StrictlyNewer(data, last) ==
  IF data = <<>> THEN <<>>
  ELSE (IF Head(data).timestamp > last
        THEN <<[kind |-> "record", timestamp |-> Head(data).timestamp,
                message |-> Head(data).message]>>
        ELSE <<>>) \o StrictlyNewer(Tail(data), last)

\* C1: whatever the file holds and whatever list is passed,
\* create_or_append_to_log leaves the file as it was followed by exactly the
\* passed records whose timestamp is strictly greater than the last
\* timestamp of the file at the start of the call (1 when none can be read),
\* in input order.
C1_AppendsExactlyTheNewer ==
  pc = "exited" =>
    /\ fileExists
    /\ file = fileAtStart \o StrictlyNewer(logs, LastRecorded(existsAtStart, fileAtStart))

\* C2: the file is append-only: whatever a step of a run does and however
\* the run ends, the lines before the step are a prefix of the lines after
\* it, and an existing file stays.
C2_AppendOnly ==
  [][IsPrefix(file, file') /\ (fileExists => fileExists')]_vars

\* C2 witness: a run has appended to a file that already held lines
C2_Witness ==
  /\ pc = "exited"
  /\ Len(fileAtStart) > 0
  /\ Len(file) > Len(fileAtStart)

\* C3 as stated: from an absent file, after any runs and for any collection
\* the device returns, the timestamps in the file never fall from one line
\* to the next.
C3_FileNonDecreasing == NonDecreasing(LineStamps(file))

\* C3 amended: from an absent file, after any runs in each of which the
\* device returned its collection newest first, the timestamps in the file
\* never fall from one line to the next.
C3_NonDecreasingWhenNewestFirst ==
  newestFirst => NonDecreasing(LineStamps(file))

\* C3 witness: two runs with newest-first collections have written lines of
\* different timestamps, the second run more than one
C3_Witness ==
  /\ newestFirst
  /\ pc = "exited"
  /\ Len(fileAtStart) > 0
  /\ Len(file) >= Len(fileAtStart) + 2
  /\ file[1].timestamp < file[Len(file)].timestamp

\* C4: after a run that authenticated and fetched successfully, every
\* entry the fetch returned is in the file, written by this run or an
\* earlier one.  Stated for the entries stamped after second 1 in behaviours
\* whose collections all came newest first, where neither the sentinel nor
\* the order of the collection is in the way.
C4_FetchedEntriesArePersisted ==
  (pc = "exited" /\ exit = "exit0" /\ Requested("POST data.lua") /\ newestFirst) =>
    \A i \in DOMAIN logs :
      logs[i].timestamp > NoTimestamp =>
        \E k \in DOMAIN file :
          /\ file[k].timestamp = logs[i].timestamp
          /\ file[k].message = logs[i].message

\* both login round trips went through: a Challenge and an integer
\* BlockTime came back from the GET, a SID from the POST
ChallengeReceived(a) ==
  a.transport = "ok" /\ a.xml = "ok" /\ a.challenge # <<>> /\ a.blocktime.fmt = "int"

SidReceived(a) == a.transport = "ok" /\ a.xml = "ok" /\ a.sid # ""

\* C5: when both round trips complete, get_sid returns the received SID
\* exactly when it is not the sentinel and raises AuthenticationError exactly
\* when it is; the sentinel is never handed to main as a session token.
C5_SentinelIsNeverASession ==
  /\ sid # SentinelSID
  /\ (pc = "got_sid" /\ ChallengeReceived(loginHttp) /\ SidReceived(sidHttp)) =>
       /\ (sidHttp.sid # SentinelSID) <=> (exc = "none" /\ sid = sidHttp.sid)
       /\ (sidHttp.sid = SentinelSID) <=> (exc = "AuthenticationError")

\* C5 witness: the device answered the response with the sentinel SID
C5_Witness ==
  /\ pc = "got_sid"
  /\ ChallengeReceived(loginHttp)
  /\ SidReceived(sidHttp)
  /\ sidHttp.sid = SentinelSID
  /\ exc = "AuthenticationError"

\* the challenge GET was made and failed; the response POST was made and
\* failed
ChallengeFailed == loginHttp # NoLoginHttp /\ ~ChallengeReceived(loginHttp)

ResponseFailed == sidHttp # NoSidHttp /\ ~SidReceived(sidHttp)

\* C6: a transport or parse failure of either round trip makes get_sid raise
\* FritzBoxConnectionError; AuthenticationError is raised only for a
\* received sentinel SID.
C6_RoundTripFailuresAreConnectionErrors ==
  pc = "got_sid" =>
    /\ (ChallengeFailed \/ ResponseFailed) => exc = "FritzBoxConnectionError"
    /\ exc = "AuthenticationError" =>
         (SidReceived(sidHttp) /\ sidHttp.sid = SentinelSID)

\* C6 witness: the answer to the response POST had no SID element
C6_Witness ==
  /\ pc = "got_sid"
  /\ sidHttp.transport = "ok" /\ sidHttp.xml = "ok" /\ sidHttp.sid = ""
  /\ exc = "FritzBoxConnectionError"

\* the delays a login attempt owes for a reported BlockTime
OwedDelays(blocktime) == IF blocktime > 0 THEN <<blocktime>> ELSE <<>>

\* C7: nothing is slept before the challenge is there; when the response is
\* about to be POSTed and ever after in get_sid, exactly one delay of
\* exactly the reported BlockTime has been made if it is positive, and none
\* if it is 0; so the POST never precedes the delay.
C7_OneDelayBeforeTheResponse ==
  /\ pc \in {"idle", "login", "challenge", "wait"} => slept = <<>>
  /\ pc = "send" =>
       /\ ~Requested("POST login_sid.lua")
       /\ slept = OwedDelays(loginHttp.blocktime.val)
  /\ (pc = "got_sid" /\ Requested("POST login_sid.lua")) =>
       slept = OwedDelays(loginHttp.blocktime.val)

\* C7 witness: the response was POSTed after a positive BlockTime
C7_Witness ==
  /\ pc = "got_sid"
  /\ Requested("POST login_sid.lua")
  /\ loginHttp.blocktime.val > 0
  /\ slept = <<loginHttp.blocktime.val>>

\* C8: a run whose login does not reach Authenticated ends as a failure
\* (exit status 1 for the sentinel SID and for a connection error), asks
\* the log endpoint nothing and leaves the file as it was, absent if it was
\* absent.
C8_FailedLoginTouchesNothing ==
  (pc = "exited" /\ raisedIn = "get_sid") =>
    /\ exit \in {"exit1", "traceback"}
    /\ exc \in {"AuthenticationError", "FritzBoxConnectionError"} => exit = "exit1"
    /\ ~Requested("POST data.lua")
    /\ ~Requested("append")
    /\ file = fileAtStart
    /\ fileExists = existsAtStart

\* C8 witness: the sentinel SID came back in a run that found a file with
\* lines
C8_Witness ==
  /\ pc = "exited"
  /\ raisedIn = "get_sid"
  /\ exc = "AuthenticationError"
  /\ Len(fileAtStart) > 0

\* answers of data.lua that C9 names: a status other than success, an HTML
\* page, a payload that is no JSON or not shaped {data: {log: [...]}}, a
\* missing or empty collection
AnomalousAnswer(a) ==
  /\ a.transport = "ok"
  /\ \/ a.status # 200
     \/ a.body \in BodyShapes
     \/ a.body = "log_list" /\ a.log = <<>>

\* C9: for each of those answers get_fritzbox_event_log returns the empty
\* list without raising.
C9_AnomaliesGiveTheEmptyList ==
  (pc = "got_logs" /\ AnomalousAnswer(logResp)) => (exc = "none" /\ logs = <<>>)

Malformed(item) == ~Complete(item) \/ ~Stamped(item)

RECURSIVE ValidEntries(_, _)
\* the entries of the well-formed, not excluded items of log, last item first
ValidEntries(log, excludes) ==
  IF log = <<>> THEN <<>>
  ELSE LET item == log[Len(log)]
           before == SubSeq(log, 1, Len(log) - 1)
       IN  (IF ~Malformed(item) /\ ~is_excluded(item.msg, excludes)
            THEN <<[timestamp |-> ItemTimestamp(item), date |-> item.date,
                    time |-> item.time, message |-> item.msg]>>
            ELSE <<>>) \o ValidEntries(before, excludes)

\* C10: when the collection holds a malformed item (no record, a missing
\* date, time or message, a date or time that does not parse), the fetch
\* does not raise and yields the other, valid entries.
C10_MalformedItemsAreSkipped ==
  (/\ pc = "got_logs"
   /\ logResp.transport = "ok" /\ logResp.status = 200 /\ logResp.body = "log_list"
   /\ \E i \in DOMAIN logResp.log : Malformed(logResp.log[i])) =>
    /\ exc = "none"
    /\ logs = ValidEntries(logResp.log, cfg.exclude)

\* ------------------------------------- the functions applied on their own
\* what a finished application left: its value, or the exception it ended with
Returned(r) == [done |-> TRUE, ok |-> r.ok, val |-> r.val, exc |-> r.exc]

\* messages of up to MaxWords of these words and phrases, a blank between
\* two of them
LevelWords ==
  { <<"Z", "w", "a", "n", "g", "s", "t", "r", "e", "n", "n", "u", "n", "g">>,
    <<"z", "u", "v", "o", "r", "z", "u", "k", "o", "m", "m", "e", "n">>,
    <<"k", "u", "r", "z", " ", "u", "n", "t", "e", "r", "b", "r", "o", "c", "h", "e", "n">>,
    <<"F", "E", "H", "L", "E", "R">>,
    <<"e", "r", "f", "o", "l", "g", "r", "e", "i", "c", "h">>,
    <<"A", "n", "m", "e", "l", "d", "u", "n", "g">>,
    <<"W", "L", "A", "N">> }

RECURSIVE Join(_)
Join(words) ==
  IF words = <<>> THEN <<>>
  ELSE IF Len(words) = 1 THEN words[1]
  ELSE words[1] \o <<" ">> \o Join(Tail(words))

LevelMessages == { Join(words) : words \in SeqsUpTo(LevelWords, MaxWords) }

LogLevelCalls == { [fn |-> "determine_log_level", message |-> m] : m \in LevelMessages }

\* determine_log_level(message)
CallDetermineLogLevel ==
  /\ call.fn = "determine_log_level"
  /\ ~ret.done
  /\ ret' = Returned(Ok(determine_log_level(call.message)))
  /\ UNCHANGED <<fileVars, pc, cfg, loginVars, sid, fetchVars, exc, raisedIn,
                 exit, events, startVars, newestFirst, call>>

\* exclusion lists of up to MaxRules rules over a few words: string rules,
\* list rules of no, one and two parts, and a rule that is a number
RuleParts == { <<"f", "o", "o">>, <<"b", "a", "r">>, <<"q", "u", "x">> }

OtherRule == [kind |-> "other", parts |-> <<>>]

Rules ==
  { StrRule(p) : p \in RuleParts }
  \cup { ListRule(<<>>) }
  \cup { ListRule(<<p>>) : p \in RuleParts }
  \cup { ListRule(<<p, q>>) : p \in RuleParts, q \in RuleParts }
  \cup { OtherRule }

RuleMessages == { <<"f", "o", "o", " ", "b", "a", "r", " ", "b", "a", "z">>,
                  <<"f", "o", "o", " ", "b", "a", "r">> }

ExcludedCalls ==
  { [fn |-> "is_excluded", message |-> m, excludes |-> e] :
      m \in RuleMessages, e \in SeqsUpTo(Rules, MaxRules) }

\* is_excluded(message, excludes)
CallIsExcluded ==
  /\ call.fn = "is_excluded"
  /\ ~ret.done
  /\ ret' = Returned(Ok(is_excluded(call.message, call.excludes)))
  /\ UNCHANGED <<fileVars, pc, cfg, loginVars, sid, fetchVars, exc, raisedIn,
                 exit, events, startVars, newestFirst, call>>

\* the challenges a device may send and some more: the text "2" and one
\* with fields whose first is not "2"; every field text in every place of a
\* five-field challenge
HasherChallenges ==
  Challenges
  \cup { <<"2">>, <<"12", "10", "a1", "10", "a1">> }
  \cup { <<"2", i1, s1, i2, s2>> :
           i1 \in IntTexts, s1 \in HexTexts, i2 \in IntTexts, s2 \in HexTexts }

HasherPasswords == {"pw", "geheim"}

ResponseCalls ==
  { [fn |-> "challenge_response", challenge |-> c, password |-> p] :
      c \in HasherChallenges, p \in HasherPasswords }

\* get_sid, lines 102-108, on a challenge and a password
CallChallengeResponse ==
  /\ call.fn = "challenge_response"
  /\ ~ret.done
  /\ ret' = Returned(challenge_response(call.challenge, call.password))
  /\ UNCHANGED <<fileVars, pc, cfg, loginVars, sid, fetchVars, exc, raisedIn,
                 exit, events, startVars, newestFirst, call>>

\* files of up to MaxFile lines of every kind, and the missing file
LastTimestampCalls ==
  { [fn |-> "get_last_timestamp", exists |-> FALSE, lines |-> <<>>] }
  \cup { [fn |-> "get_last_timestamp", exists |-> TRUE, lines |-> l] :
           l \in SeqsUpTo(FinalLines, MaxFile) }

\* get_last_timestamp(file_path)
CallGetLastTimestamp ==
  /\ call.fn = "get_last_timestamp"
  /\ ~ret.done
  /\ ret' = Returned(get_last_timestamp(call.exists, call.lines))
  /\ UNCHANGED <<fileVars, pc, cfg, loginVars, sid, fetchVars, exc, raisedIn,
                 exit, events, startVars, newestFirst, call>>

Calls == LastTimestampCalls \cup LogLevelCalls \cup ExcludedCalls \cup ResponseCalls

InitCalls ==
  /\ fileExists = FALSE
  /\ file = <<>>
  /\ pc = "idle"
  /\ RunLocalsCleared
  /\ fileAtStart = <<>>
  /\ existsAtStart = FALSE
  /\ newestFirst = TRUE
  /\ call \in Calls
  /\ ret = NoRet

NextCalls ==
  \/ CallGetLastTimestamp
  \/ CallDetermineLogLevel
  \/ CallIsExcluded
  \/ CallChallengeResponse

SpecCalls == InitCalls /\ [][NextCalls]_vars

\* C11: get_last_timestamp never raises: it returns the timestamp of the
\* final line when that line is a record with a timestamp, and 1 for a
\* missing file, an empty file and every other final line; the lines before
\* the final one have no say.
C11_LastTimestampNeverRaises ==
  (call.fn = "get_last_timestamp" /\ ret.done) =>
    /\ ret.ok
    /\ ret.val = LastRecorded(call.exists, call.lines)

\* the lines that hold exactly the entries of a list, in its order
LinesOf(entries) ==
  [i \in 1..Len(entries) |->
     [kind |-> "record", timestamp |-> entries[i].timestamp,
      message |-> entries[i].message]]

\* C12: a run that finds the log file absent or empty and fetches the log
\* persists every normalized entry the fetch returned, because the stand-in
\* timestamp 1 is below the timestamp of every entry the fetch can return.
C12_FirstRunPersistsEverything ==
  (pc = "exited" /\ exit = "exit0" /\ fileAtStart = <<>>
   /\ Requested("POST data.lua")) =>
    file = LinesOf(logs)

\* a lower-case pattern occurs in a message, letter case aside
SameLetter(a, b) ==
  a = b \/ \E k \in DOMAIN UpperCase : UpperCase[k] = a /\ LowerCase[k] = b

Occurs(pattern, message) ==
  \E k \in 0..(Len(message) - Len(pattern)) :
    \A j \in 1..Len(pattern) : SameLetter(message[k + j], pattern[j])

OccursAny(patterns, message) ==
  \E i \in DOMAIN patterns : Occurs(patterns[i], message)

\* the forced-disconnect marker and the precautionary marker are both there
BothMarkers(message) ==
  Occurs(Zwangstrennung, message) /\ Occurs(Zuvorzukommen, message)

\* the short-interruption marker and the precautionary marker are both there
ShortInterruption(message) ==
  Occurs(KurzUnterbrochen, message) /\ Occurs(Zuvorzukommen, message)

\* the level of the first matching tier, tier 1 being given
TierLevel(message, tier1) ==
  IF tier1 THEN "warning"
  ELSE IF OccursAny(ERROR_PATTERNS, message) THEN "error"
  ELSE IF OccursAny(WARNING_PATTERNS, message) THEN "warning"
  ELSE IF OccursAny(SUCCESS_PATTERNS, message) THEN "info"
  ELSE IF OccursAny(ContextWords, message)
          /\ OccursAny(ContextSuccessWords, message) THEN "info"
  ELSE IF OccursAny(ContextWords, message)
          /\ OccursAny(ContextFailureWords, message) THEN "error"
  ELSE "info"

Classified == call.fn = "determine_log_level" /\ ret.done

\* C13: determine_log_level returns the level of the first matching tier,
\* letter case aside: (1) forced-disconnect marker and precautionary marker
\* both present -> warning, and nothing else makes tier 1; (2) an error
\* pattern -> error; (3) a warning pattern -> warning; (4) a success pattern
\* -> info; (5) a context word with a success word -> info, with a failure
\* word -> error; (6) info.  The result is one of error, warning, info.
C13_FirstMatchingTier ==
  Classified =>
    /\ ret.val = TierLevel(call.message, BothMarkers(call.message))
    /\ ret.val \in {"error", "warning", "info"}

\* C13 as the code has it: tier 1 is made by the precautionary marker
\* together with either the forced-disconnect marker or the
\* short-interruption marker; the other tiers are as stated.
C13_FirstMatchingTierWithBothSpecialCases ==
  Classified =>
    /\ ret.val = TierLevel(call.message,
                           BothMarkers(call.message) \/ ShortInterruption(call.message))
    /\ ret.val \in {"error", "warning", "info"}

\* C13 witness: a message that holds an error pattern, and that only the
\* second special case makes a warning, has been classified
C13_Witness ==
  /\ Classified
  /\ ShortInterruption(call.message)
  /\ ~BothMarkers(call.message)
  /\ OccursAny(ERROR_PATTERNS, call.message)
  /\ ret.val = "warning"

\* C14: a message that holds both the forced-disconnect marker and the
\* precautionary marker, in any letter case, is classified warning whatever
\* error, warning or success patterns it holds as well.
C14_PlannedDisconnectIsAWarning ==
  (Classified /\ BothMarkers(call.message)) => ret.val = "warning"

\* C14 witness: such a message, with a marker spelled with a capital and
\* with an error pattern in it, has been classified
C14_Witness ==
  /\ Classified
  /\ BothMarkers(call.message)
  /\ ~Contains(Zwangstrennung, call.message)
  /\ OccursAny(ERROR_PATTERNS, call.message)

\* sub is a stretch of consecutive characters of text
IsSubstring(sub, text) ==
  \E k \in 1..(Len(text) - Len(sub) + 1) :
    SubSeq(text, k, k + Len(sub) - 1) = sub

\* a string rule matches when it is a substring of the message, a list rule
\* when every one of its parts is; a rule that is neither matches nothing
Matches(rule, message) ==
  CASE rule.kind = "str" -> IsSubstring(rule.parts[1], message)
    [] rule.kind = "list" ->
         \A p \in Range(rule.parts) : IsSubstring(p, message)
    [] OTHER -> FALSE

\* C15: is_excluded(message, rules) is true if and only if some rule of the
\* list matches the message; with the empty list nothing is excluded.
C15_ExcludedIffSomeRuleMatches ==
  (call.fn = "is_excluded" /\ ret.done) =>
    /\ ret.val = (\E rule \in Range(call.excludes) : Matches(rule, call.message))
    /\ (call.excludes = <<>> => ret.val = FALSE)

\* C15 witness: "foo bar" was tested against [["foo","qux"], ["foo","bar"]],
\* whose first rule does not match and whose second does
C15_Witness ==
  /\ call.fn = "is_excluded"
  /\ ret.done
  /\ call.message = <<"f", "o", "o", " ", "b", "a", "r">>
  /\ call.excludes =
       << ListRule(<< <<"f", "o", "o">>, <<"q", "u", "x">> >>),
          ListRule(<< <<"f", "o", "o">>, <<"b", "a", "r">> >>) >>
  /\ ret.val = TRUE

\* the settings the run read are unusable: no file, a file that is no YAML
\* mapping, or no user name or no password in it
UnusableSettings ==
  \/ cfg.file \in {"absent", "malformed", "notmapping"}
  \/ cfg.file = "ok" /\ (cfg.username = "" \/ cfg.password = "")

\* C16: a run whose settings file is absent or malformed, or lacks a user
\* name or a password, has ended as a failure without any request to the
\* login endpoint or the log endpoint and with the log file as it found it.
C16_UnusableSettingsAbortBeforeTheNetwork ==
  UnusableSettings =>
    /\ pc = "exited"
    /\ exit \in {"exit1", "traceback"}
    /\ events = <<>>
    /\ file = fileAtStart
    /\ fileExists = existsAtStart

\* C16 witness: a run with a user name and no password has ended while a
\* file of earlier runs was there
C16_Witness ==
  /\ pc = "exited"
  /\ cfg.file = "ok"
  /\ cfg.username # ""
  /\ cfg.password = ""
  /\ exit = "exit1"
  /\ fileExists
  /\ file # <<>>

\* a challenge text starts with "2$": its first "$"-separated field is "2"
\* and another field follows
StartsWith2Dollar(challenge) == Len(challenge) >= 2 /\ Head(challenge) = "2"

\* a challenge of the form 2$iter1$salt1hex$iter2$salt2hex
WellFormed2Dollar(challenge) ==
  /\ Len(challenge) = 5
  /\ challenge[1] = "2"
  /\ challenge[2] \in IntTexts
  /\ challenge[3] \in HexTexts
  /\ challenge[4] \in IntTexts
  /\ challenge[5] \in HexTexts

Responded == call.fn = "challenge_response" /\ ret.done

\* C17: the response is fixed by the challenge and the password, and its
\* scheme by the challenge's prefix alone: for 2$iter1$salt1hex$iter2$salt2hex
\* it is salt2hex, "$" and the 64 hexadecimal digits of the second of two
\* chained PBKDF2-HMAC-SHA256 derivations (password with salt1 and iter1,
\* then the result with salt2 and iter2); for every challenge that does not
\* start with "2$" it is the challenge, "-" and the 32 hexadecimal digits
\* of the MD5 of challenge-password.
C17_ResponseByChallengePrefix ==
  Responded =>
    /\ WellFormed2Dollar(call.challenge) =>
         /\ ret.ok
         /\ ret.val.scheme = "pbkdf2"
         /\ ret.val.head = <<call.challenge[5]>>
         /\ ret.val.digest = <<call.password, call.challenge[3], call.challenge[2],
                               call.challenge[5], call.challenge[4]>>
         /\ ret.val.hexlen = 64
    /\ ~StartsWith2Dollar(call.challenge) =>
         /\ ret.ok
         /\ ret.val.scheme = "md5"
         /\ ret.val.head = call.challenge
         /\ ret.val.digest = <<call.challenge, call.password>>
         /\ ret.val.hexlen = 32

\* C17 witness: a response to a well-formed "2$" challenge was computed
C17_Witness ==
  /\ Responded
  /\ WellFormed2Dollar(call.challenge)
  /\ call.challenge[2] # call.challenge[4]
  /\ ret.ok

\* the visible steps of a run, in their order
VisibleSteps == <<"GET login_sid.lua", "POST login_sid.lua", "POST data.lua", "append">>

\* C18: the visible steps of a run come in one order and each at most once,
\* with no retry: challenge GET, response POST (after the delay, if one is
\* owed), log POST, file append.  The response is POSTed only after a
\* challenge came back and a response was computed, the log endpoint is
\* asked only with a session that the response POST returned, and the file
\* is appended to only when the fetch returned without error at least one
\* entry.
C18_StepsInOrderAtMostOnce ==
  /\ IsPrefix(events, VisibleSteps)
  /\ (pc = "got_sid" /\ Requested("POST login_sid.lua")) =>
       /\ ChallengeReceived(loginHttp)
       /\ response # NoResponse
       /\ slept = OwedDelays(login.blocktime)
  /\ Requested("POST data.lua") =>
       /\ SidReceived(sidHttp)
       /\ sid = sidHttp.sid
       /\ raisedIn # "get_sid"
  /\ Requested("append") =>
       /\ exc = "none"
       /\ logs # <<>>

\* C18 witness: a run has made all four steps
C18_Witness ==
  /\ pc = "exited"
  /\ events = VisibleSteps
  /\ file # fileAtStart

\* an item the claim keeps: a record with a date, a time and a message that
\* no rule of the list matches
Survives(item, excludes) ==
  /\ item.isdict
  /\ item.date # EmptyText
  /\ item.time # EmptyText
  /\ item.msg # <<>>
  /\ ~\E rule \in Range(excludes) : Matches(rule, item.msg)

\* date, time and message of an item or of an entry
Shown(date, time, message) == [date |-> date, time |-> time, message |-> message]

RECURSIVE KeptReversed(_, _)
\* the surviving items of a collection, last item first
KeptReversed(log, excludes) ==
  IF log = <<>> THEN <<>>
  ELSE LET item == log[Len(log)]
       IN  (IF Survives(item, excludes)
            THEN <<Shown(item.date, item.time, item.msg)>>
            ELSE <<>>)
           \o KeptReversed(SubSeq(log, 1, Len(log) - 1), excludes)

\* a collection came back whose surviving items all carry a date and a time
\* of the device's format
WellFormedCollection ==
  /\ logResp.transport = "ok" /\ logResp.status = 200 /\ logResp.body = "log_list"
  /\ \A i \in DOMAIN logResp.log :
       Survives(logResp.log[i], cfg.exclude) =>
         (logResp.log[i].date.fmt = "ok" /\ logResp.log[i].time.fmt = "ok")

\* the lines a step adds to the file
AddedLines == SubSeq(file', Len(file) + 1, Len(file'))

\* C19: for a well-formed collection the fetch returns exactly the
\* collection in reverse order restricted to the records with a date, a
\* time and a message that no exclusion rule matches; and no line a run
\* writes carries a message that an exclusion rule of the run matches.
C19_ReversedAndRestricted ==
  /\ [](pc = "got_logs" /\ WellFormedCollection =>
          /\ exc = "none"
          /\ [i \in DOMAIN logs |-> Shown(logs[i].date, logs[i].time, logs[i].message)]
               = KeptReversed(logResp.log, cfg.exclude))
  /\ [][pc = "got_logs" =>
          \A i \in DOMAIN AddedLines :
            ~\E rule \in Range(cfg.exclude) : Matches(rule, AddedLines[i].message)]_vars

\* C19 witness: of a collection of two records the second was excluded and
\* the first returned
C19_Witness ==
  /\ pc = "got_logs"
  /\ WellFormedCollection
  /\ Len(logResp.log) = 2
  /\ logResp.log[1].isdict /\ logResp.log[2].isdict
  /\ ~Survives(logResp.log[2], cfg.exclude)
  /\ Survives(logResp.log[1], cfg.exclude)
  /\ Len(logs) = 1

\* a run has fetched the log and ended successfully
RunCompleted == pc = "exited" /\ exit = "exit0" /\ Requested("POST data.lua")

\* what a second run does that fetches the same collection under the same
\* rules: the fetch returns the same list, and a non-empty list goes to
\* create_or_append_to_log on the file the first run left
RerunAppendsNothing ==
  logs # <<>> =>
    LET again == create_or_append_to_log(fileExists, file, logs)
    IN  again.ok /\ again.val = file

\* C20: after a run that completed successfully, a second run that fetches
\* exactly the same collection under the same exclusion rules appends no
\* record.
C20_RerunAppendsNothing ==
  RunCompleted => RerunAppendsNothing

\* C20 for a device that lists its log newest first: when the entries the
\* first run fetched came newest first (so that the fetch returned them in
\* non-decreasing order of timestamp), the second run appends no record.
C20_RerunAppendsNothingWhenNewestFirst ==
  (RunCompleted /\ NonDecreasing([i \in DOMAIN logs |-> logs[i].timestamp])) =>
    RerunAppendsNothing

\* C20 witness: a run has appended two entries of different seconds, the
\* older one first
C20_Witness ==
  /\ RunCompleted
  /\ Len(logs) = 2
  /\ logs[1].timestamp < logs[2].timestamp
  /\ file = fileAtStart \o LinesOf(logs)

\* C21: whatever the device answers on the login endpoint, a challenge
\* that starts with "2$" without five well-formed fields included, get_sid
\* ends by returning a session that is not the sentinel, by raising
\* AuthenticationError or by raising FritzBoxConnectionError, and with
\* nothing else; so a run that ends in get_sid ends with the reported
\* failure of main's handler, status 1.
C21_GetSidEndsInOneOfThree ==
  /\ pc = "got_sid" =>
       \/ exc = "none" /\ sid # "" /\ sid # SentinelSID
       \/ exc = "AuthenticationError"
       \/ exc = "FritzBoxConnectionError"
  /\ (pc = "exited" /\ raisedIn = "get_sid") => exit = "exit1"

====
